---------------------------- MODULE Spec2Model ----------------------------
(***************************************************************************)
(* A model of rustache's CacheNode (src/src/lib.rs): an insertion-ordered  *)
(* key -> value store (linked_hash_map::LinkedHashMap) with a capacity, a  *)
(* TTL policy (EXPIRE / REVALIDATE) and an attached computation.           *)
(*                                                                         *)
(* The store is a sequence of entries, oldest insertion first (the front   *)
(* of the LinkedHashMap is element 1).  chrono::Utc::now() is the variable *)
(* now, in whole seconds; one call reads the clock at one instant.         *)
(***************************************************************************)
EXTENDS Integers, Sequences, FiniteSets, TLC

\* ------------------------------------------------------------- bounds
MaxKey  == 3   \* keys are 1..MaxKey
InsertVal == 0 \* the value insert() is called with
MaxCap  == 2   \* arguments of capacity() are 0..MaxCap
MaxSecs == 1   \* arguments of expires() are 0..MaxSecs
MaxTime == 3   \* the clock runs over 0..MaxTime

Keys     == 1..MaxKey
Vals     == {InsertVal}
Caps     == 0..MaxCap
Secs     == 0..MaxSecs

\* ------------------------------------------------------------- constants
DEFAULT_TTL_DURATION   == 10
DEFAULT_CACHE_CAPACITY == 8

EXPIRE     == "EXPIRE"
REVALIDATE == "REVALIDATE"

Initialized == "Initialized"
Memoized    == "Memoized"

\* Option<DateTime>::None of ttl.expiration
NoExpiration == -1

\* Option<V>: None is the empty sequence, Some(v) the one-element sequence.
None    == <<>>
Some(v) == <<v>>

\* The attached calculation C: Fn(K) -> V.  The caller supplies it; the
\* model takes the squaring function of the specification's scenario.
Calc(k) == k * k

VARIABLES
    cache,       \* CacheNode.cache: sequence of [k, v], oldest insertion first
    capacity,    \* CacheNode.capacity
    expiration,  \* CacheNode.ttl.expiration (NoExpiration = None)
    action,      \* CacheNode.ttl.revalidation.action
    duration,    \* CacheNode.ttl.revalidation.duration
    controller,  \* the stage S of CacheNode<K, V, S>
    now,         \* chrono::Utc::now()
    configured,  \* the instant of the last expires() call (NoExpiration = never)
    op,          \* the last call made on the node
    arg,         \* its key (or numeric argument)
    branch,      \* the branch of get / insert / value that call took
    ret,         \* what it returned (None for a call returning nothing)
    calls,       \* how many times it invoked the calculation
    requested,   \* the keys requested in a run of value() calls (RunValue)
    computed     \* those of them the run invoked the calculation for

vars == <<cache, capacity, expiration, action, duration, controller, now,
          configured, op, arg, branch, ret, calls, requested, computed>>

\* ------------------------------------------------------------- LinkedHashMap
\* the position of key k in the store, 0 when absent
IndexOf(c, k) ==
    IF \E i \in 1..Len(c) : c[i].k = k
    THEN CHOOSE i \in 1..Len(c) : c[i].k = k
    ELSE 0

Contains(c, k) == IndexOf(c, k) # 0

\* LinkedHashMap::get
MapGet(c, k) == c[IndexOf(c, k)].v

RemoveAt(c, i) == SubSeq(c, 1, i - 1) \o SubSeq(c, i + 1, Len(c))

\* LinkedHashMap::insert: a new key is appended at the back; an existing key
\* has its value replaced and its node detached and re-attached at the back.
MapInsert(c, k, v) ==
    IF Contains(c, k)
    THEN Append(RemoveAt(c, IndexOf(c, k)), [k |-> k, v |-> v])
    ELSE Append(c, [k |-> k, v |-> v])

\* pop_front taking the newest entry instead of the oldest
PopBack(c) == SubSeq(c, 1, Len(c) - 1)

\* LinkedHashMap::pop_front, on a non-empty map: removes the oldest entry
PopFront(c) == Tail(c)

\* ------------------------------------------------------------- controllers
\* check_capacity(): Ok iff cache.len() < capacity
CheckCapacity(c, cap) == Len(c) < cap

\* clean_up(): Ok iff pop_front() removed an entry
CleanUpOk(c) == c # <<>>
CleanUp(c)   == IF CleanUpOk(c) THEN PopFront(c) ELSE c

\* validate_expiration comparing with >= instead of >
ValidateExpirationAtOrAfter(t, e) ==
    IF e # NoExpiration THEN ~(t >= e) ELSE TRUE

\* validate_expiration taking an unset expiration as expired
ValidateExpirationUnsetExpired(t, e) ==
    IF e # NoExpiration THEN ~(t > e) ELSE FALSE

\* validate_expiration(): Ok (TRUE) unless an expiration is set and t > it
ValidateExpiration(t, e) ==
    IF e # NoExpiration THEN ~(t > e) ELSE TRUE

\* now + Duration::seconds(duration)
Renewed(t, d) == t + d

\* ------------------------------------------------------------- branches
\* a read that clears and recomputes on expiry whatever the action is
ReadBranchAlwaysExpire(c, t, e, act, k) ==
    IF Contains(c, k)
    THEN IF ValidateExpiration(t, e) THEN "fresh" ELSE "expire"
    ELSE "absent"

\* the path a read of key k takes through get() / value()
ReadBranch(c, t, e, act, k) ==
    IF Contains(c, k)
    THEN IF ValidateExpiration(t, e) THEN "fresh"
         ELSE IF act = REVALIDATE THEN "revalidate" ELSE "expire"
    ELSE "absent"

\* the path of the capacity handling in insert() and in value()'s miss arm
StoreBranch(c, cap) ==
    IF CheckCapacity(c, cap) THEN "room"
    ELSE IF CleanUpOk(c) THEN "evict" ELSE "empty"

\* the store after the capacity handling, before the new entry goes in
MakeRoom(c, cap) ==
    IF CheckCapacity(c, cap) THEN c
    ELSE IF CleanUpOk(c) THEN CleanUp(c) ELSE <<>>

\* ------------------------------------------------------------- Init
\* CacheNode::new()
Init ==
    /\ cache = <<>>
    /\ capacity = DEFAULT_CACHE_CAPACITY
    /\ expiration = NoExpiration
    /\ action = EXPIRE
    /\ duration = DEFAULT_TTL_DURATION
    /\ controller = Initialized
    /\ now = 0
    /\ configured = NoExpiration
    /\ op = "new"
    /\ arg = 0
    /\ branch = "none"
    /\ ret = None
    /\ calls = 0
    /\ requested = {}
    /\ computed = {}

\* ------------------------------------------------------------- Initialized
\* CacheNode<K, V, Initialized>::get
GetExpiration(b, t, e, d) ==
    IF b \in {"revalidate", "expire"} THEN Renewed(t, d) ELSE e

GetCache(b, c) == IF b = "expire" THEN <<>> ELSE c

\* get() returning the stale value in the EXPIRE arm too
GetRetStaleOnExpire(b, c, k) ==
    IF b \in {"fresh", "revalidate", "expire"} THEN Some(MapGet(c, k)) ELSE None

GetRet(b, c, k) ==
    IF b \in {"fresh", "revalidate"} THEN Some(MapGet(c, k)) ELSE None

Get(k) ==
    /\ controller = Initialized
    /\ LET b == ReadBranch(cache, now, expiration, action, k) IN
        /\ branch' = b
        /\ expiration' = GetExpiration(b, now, expiration, duration)
        /\ cache' = GetCache(b, cache)
        /\ ret' = GetRet(b, cache, k)
    /\ op' = "get"
    /\ arg' = k
    /\ calls' = 0
    /\ UNCHANGED <<requested, computed>>
    /\ UNCHANGED <<capacity, action, duration, controller, now, configured>>

\* CacheNode<K, V, Initialized>::insert
InsertCache(c, cap, k, v) == MapInsert(MakeRoom(c, cap), k, v)

Insert(k, v) ==
    /\ controller = Initialized
    /\ branch' = StoreBranch(cache, capacity)
    /\ cache' = InsertCache(cache, capacity, k, v)
    /\ op' = "insert"
    /\ arg' = k
    /\ ret' = None
    /\ calls' = 0
    /\ UNCHANGED <<requested, computed>>
    /\ UNCHANGED <<capacity, expiration, action, duration, controller, now,
                   configured>>

\* with_memo building the Memo-Bound node on an empty store
WithMemoEmpty ==
    /\ controller = Initialized
    /\ controller' = Memoized
    /\ cache' = <<>>
    /\ op' = "with_memo"
    /\ arg' = 0
    /\ branch' = "none"
    /\ ret' = None
    /\ calls' = 0
    /\ UNCHANGED <<requested, computed>>
    /\ UNCHANGED <<capacity, expiration, action, duration, now, configured>>

\* CacheNode<K, V, Initialized>::with_memo
WithMemo ==
    /\ controller = Initialized
    /\ controller' = Memoized
    /\ op' = "with_memo"
    /\ arg' = 0
    /\ branch' = "none"
    /\ ret' = None
    /\ calls' = 0
    /\ UNCHANGED <<requested, computed>>
    /\ UNCHANGED <<cache, capacity, expiration, action, duration, now,
                   configured>>

\* ------------------------------------------------------------- Memoized
\* the store after memoize(): the computed value goes in with no capacity check
MemoizeCache(c, k) == MapInsert(c, k, Calc(k))

\* CacheNode<K, V, Memoized<C>>::memoize
Memoize(k) ==
    /\ controller = Memoized
    /\ cache' = MemoizeCache(cache, k)
    /\ ret' = Some(Calc(k))
    /\ calls' = 1
    /\ UNCHANGED <<requested, computed>>
    /\ op' = "memoize"
    /\ arg' = k
    /\ branch' = "none"
    /\ UNCHANGED <<capacity, expiration, action, duration, controller, now,
                   configured>>

\* CacheNode<K, V, Memoized<C>>::value
ValueBranch(c, cap, t, e, act, k) ==
    IF Contains(c, k) THEN ReadBranch(c, t, e, act, k) ELSE StoreBranch(c, cap)

\* value() renewing the expiration in the EXPIRE arm only
ValueExpirationExpireOnly(b, t, e, d) ==
    IF b = "expire" THEN Renewed(t, d) ELSE e

\* value() renewing the expiration in the miss arm as well
ValueExpirationRenewOnMiss(b, t, e, d) ==
    IF b # "fresh" /\ e # NoExpiration THEN Renewed(t, d) ELSE e

ValueExpiration(b, t, e, d) ==
    IF b \in {"revalidate", "expire"} THEN Renewed(t, d) ELSE e

\* value() without the cache.clear() of the EXPIRE arm
ValueCacheNoClear(b, c, cap, k) ==
    CASE b \in {"fresh", "revalidate"} -> c
      [] b = "expire" -> MemoizeCache(c, k)
      [] OTHER -> MemoizeCache(MakeRoom(c, cap), k)

\* value() moving a key that hits to the back of the store (LRU)
ValueCacheLru(b, c, cap, k) ==
    CASE b \in {"fresh", "revalidate"} -> MapInsert(c, k, MapGet(c, k))
      [] b = "expire" -> MemoizeCache(<<>>, k)
      [] OTHER -> MemoizeCache(MakeRoom(c, cap), k)

ValueCache(b, c, cap, k) ==
    CASE b \in {"fresh", "revalidate"} -> c
      [] b = "expire" -> MemoizeCache(<<>>, k)
      [] OTHER -> MemoizeCache(MakeRoom(c, cap), k)

\* value() returning None in the EXPIRE arm, as get() does
ValueRetNoneOnExpire(b, c, k) ==
    CASE b \in {"fresh", "revalidate"} -> Some(MapGet(c, k))
      [] b = "expire" -> None
      [] OTHER -> Some(Calc(k))

ValueRet(b, c, k) ==
    IF b \in {"fresh", "revalidate"} THEN Some(MapGet(c, k)) ELSE Some(Calc(k))

ValueCalls(b) == IF b \in {"fresh", "revalidate"} THEN 0 ELSE 1

ValueCall(k) ==
    /\ controller = Memoized
    /\ LET b == ValueBranch(cache, capacity, now, expiration, action, k) IN
        /\ branch' = b
        /\ expiration' = ValueExpiration(b, now, expiration, duration)
        /\ cache' = ValueCache(b, cache, capacity, k)
        /\ ret' = ValueRet(b, cache, k)
        /\ calls' = ValueCalls(b)
    /\ op' = "value"
    /\ arg' = k
    /\ UNCHANGED <<capacity, action, duration, controller, now, configured>>

\* value(), the run history not kept
Value(k) == ValueCall(k) /\ UNCHANGED <<requested, computed>>

\* value(), called in a run of value() calls whose keys are recorded
RunValue(k) ==
    /\ ValueCall(k)
    /\ requested' = requested \cup {k}
    /\ computed' = IF calls' = 1 THEN computed \cup {k} ELSE computed

\* ------------------------------------------------------------- configuration
\* NodeCapacityController::capacity, for every stage S
Capacity(n) ==
    /\ capacity' = n
    /\ op' = "capacity"
    /\ arg' = n
    /\ branch' = "none"
    /\ ret' = None
    /\ calls' = 0
    /\ UNCHANGED <<requested, computed>>
    /\ UNCHANGED <<cache, expiration, action, duration, controller, now,
                   configured>>

\* NodeExpirationController::expires, for every stage S
Expires(s) ==
    /\ expiration' = Renewed(now, s)
    /\ duration' = s
    /\ configured' = now
    /\ op' = "expires"
    /\ arg' = s
    /\ branch' = "none"
    /\ ret' = None
    /\ calls' = 0
    /\ UNCHANGED <<requested, computed>>
    /\ UNCHANGED <<cache, capacity, action, controller, now>>

\* NodeExpirationController::revalidate, for every stage S
Revalidate(status) ==
    /\ action' = IF status = TRUE THEN REVALIDATE ELSE EXPIRE
    /\ op' = "revalidate"
    /\ arg' = 0
    /\ branch' = "none"
    /\ ret' = None
    /\ calls' = 0
    /\ UNCHANGED <<requested, computed>>
    /\ UNCHANGED <<cache, capacity, expiration, duration, controller, now,
                   configured>>

\* ------------------------------------------------------------- the clock
\* time passes between two calls
Tick ==
    /\ now < MaxTime
    /\ now' = now + 1
    /\ op' = "tick"
    /\ arg' = 0
    /\ branch' = "none"
    /\ ret' = None
    /\ calls' = 0
    /\ UNCHANGED <<requested, computed>>
    /\ UNCHANGED <<cache, capacity, expiration, action, duration, controller,
                   configured>>

\* ------------------------------------------------------------- Next
Next ==
    \/ \E k \in Keys : Get(k)
    \/ \E k \in Keys, v \in Vals : Insert(k, v)
    \/ WithMemo
    \/ \E k \in Keys : Memoize(k)
    \/ \E k \in Keys : Value(k)
    \/ \E n \in Caps : Capacity(n)
    \/ \E s \in Secs : Expires(s)
    \/ \E status \in BOOLEAN : Revalidate(status)
    \/ Tick

Spec == Init /\ [][Next]_vars

\* ------------------------------------------------------------- value() runs
\* A node is built and configured in the Initialized stage, a calculation is
\* attached to it in REVALIDATE mode with capacity >= 1, and from then on
\* only value() is called while the clock advances.
RunConfigure ==
    /\ controller = Initialized
    /\ \/ \E n \in Caps : Capacity(n)
       \/ \E s \in Secs : Expires(s)
       \/ \E status \in BOOLEAN : Revalidate(status)

RunWithMemo == action = REVALIDATE /\ capacity >= 1 /\ WithMemo

NextRun ==
    \/ \E k \in Keys : Get(k)
    \/ \E k \in Keys, v \in Vals : Insert(k, v)
    \/ RunConfigure
    \/ RunWithMemo
    \/ \E k \in Keys : RunValue(k)
    \/ Tick

SpecRun == Init /\ [][NextRun]_vars

TypeOK ==
    /\ Len(cache) <= MaxKey
    /\ \A i, j \in 1..Len(cache) : cache[i].k = cache[j].k => i = j
    /\ capacity \in Caps \cup {DEFAULT_CACHE_CAPACITY}
    /\ duration \in Secs \cup {DEFAULT_TTL_DURATION}
    /\ configured \in {NoExpiration} \cup 0..MaxTime
    /\ calls \in {0, 1}
    /\ Len(ret) <= 1
    /\ computed \subseteq requested /\ requested \subseteq Keys
    /\ expiration \in {NoExpiration} \cup 0..(MaxTime + MaxSecs)
    /\ action \in {EXPIRE, REVALIDATE}
    /\ controller \in {Initialized, Memoized}
    /\ now \in 0..MaxTime

\* ------------------------------------------------------------- properties
Entry(k, v) == [k |-> k, v |-> v]

\* the last call was a read (get or value) that found its key in the store
IsStale(b) == b \in {"revalidate", "expire"}

\* the expiration instant of the state has passed
Passed == expiration # NoExpiration /\ now > expiration

\* every stored entry holds the value the calculation gives for its key
AllComputed(c) == \A i \in 1..Len(c) : c[i].v = Calc(c[i].k)

\* C1: the number of stored entries never exceeds the configured capacity,
\* whatever calls are made and however the clock advances.
C1_CapacityInvariant == Len(cache) <= capacity

\* C2: value(k) always returns Some(v), never None; and when every entry of
\* the store was produced by the calculation, v is Calc(k).
C2_ValueNeverMisses ==
    [][op' = "value" =>
        /\ Len(ret') = 1
        /\ AllComputed(cache) => ret' = Some(Calc(arg'))]_vars

C2_Witness ==
    /\ op = "value" /\ branch = "expire"
    /\ ret = Some(Calc(arg)) /\ AllComputed(cache)

\* C3: value(k) or insert(k, v) of an absent key on a store holding exactly
\* capacity (>= 1) entries removes exactly the oldest entry, keeps the others
\* in order and puts k at the back; with fewer entries nothing is removed.
C3_FifoEviction ==
    [][(/\ op' \in {"value", "insert"}
        /\ ~Contains(cache, arg')
        /\ capacity >= 1
        /\ Len(cache) <= capacity) =>
        /\ cache'[Len(cache')].k = arg'
        /\ IF Len(cache) = capacity
           THEN /\ Len(cache') = Len(cache)
                /\ SubSeq(cache', 1, Len(cache') - 1) = Tail(cache)
                /\ ~Contains(cache', Head(cache).k)
           ELSE /\ Len(cache') = Len(cache) + 1
                /\ SubSeq(cache', 1, Len(cache)) = cache]_vars

C3_Witness ==
    /\ op = "value" /\ branch = "evict"
    /\ capacity = 2 /\ Len(cache) = capacity

\* C4: two consecutive value(k) calls at the same instant, with nothing in
\* between, on a node of capacity >= 1 invoke the calculation at most once
\* in total and return equal results.
C4_Idempotence ==
    [][(/\ op = "value" /\ op' = "value" /\ arg' = arg
        /\ now' = now /\ capacity >= 1) =>
        /\ calls + calls' <= 1
        /\ ret' = ret]_vars

\* C5: in EXPIRE mode value(k) of a present key after the expiration instant
\* invokes the calculation once, returns Calc(k), leaves exactly the entry
\* k -> Calc(k) and sets the expiration to now + duration.
C5_ExpireStaleHit ==
    [][(/\ op' = "value" /\ action = EXPIRE
        /\ Contains(cache, arg') /\ Passed) =>
        /\ calls' = 1
        /\ ret' = Some(Calc(arg'))
        /\ cache' = <<Entry(arg', Calc(arg'))>>
        /\ expiration' = now + duration]_vars

C5_Witness ==
    /\ op = "value" /\ branch = "expire" /\ action = EXPIRE
    /\ cache = <<Entry(arg, Calc(arg))>>
    /\ expiration = now + duration

\* C6: in EXPIRE mode value(k) after the expiration instant, for k present or
\* absent, clears every entry, recomputes k and leaves the expiration instant
\* no earlier than the call.
C6_ExpireAnyRead ==
    [][(op' = "value" /\ action = EXPIRE /\ Passed) =>
        /\ calls' = 1
        /\ cache' = <<Entry(arg', Calc(arg'))>>
        /\ expiration' >= now]_vars

\* C7: in REVALIDATE mode value(k) or get(k) of a present key after the
\* expiration instant returns the stored value, invokes nothing, leaves the
\* store as it was and sets the expiration to now + duration.
C7_RevalidateStaleHit ==
    [][(/\ op' \in {"value", "get"} /\ action = REVALIDATE
        /\ Contains(cache, arg') /\ Passed) =>
        /\ ret' = Some(MapGet(cache, arg'))
        /\ calls' = 0
        /\ cache' = cache
        /\ expiration' = now + duration]_vars

C7_Witness ==
    /\ op = "value" /\ branch = "revalidate" /\ action = REVALIDATE
    /\ Len(cache) >= 2 /\ ret = Some(MapGet(cache, arg))
    /\ expiration = now + duration

\* C8 as stated: a read of a present key is Expired iff an expiration e is
\* set and now > e; and after expires(0) every read of a present key later
\* than the configuration instant is Expired.
C8_FreshnessEveryRead ==
    [][(op' \in {"value", "get"} /\ Contains(cache, arg')) =>
        /\ IsStale(branch') <=> Passed
        /\ (duration = 0 /\ configured # NoExpiration /\ now > configured)
              => IsStale(branch')]_vars

\* C8 amended: a read of a present key is Expired iff an expiration e is set
\* and now > e (a read at exactly e is Fresh); after expires(0) the
\* expiration instant is the configuration instant or the instant of the
\* latest stale read, and a read of a present key later than both is Expired.
C8_Freshness ==
    [][/\ (op' \in {"value", "get"} /\ Contains(cache, arg')) =>
            /\ IsStale(branch') <=> Passed
            /\ (/\ duration = 0 /\ configured # NoExpiration
                /\ now > configured /\ now > expiration) => IsStale(branch')
       /\ (duration' = 0 /\ configured' # NoExpiration) =>
            /\ configured' <= expiration' /\ expiration' <= now'
            /\ IsStale(branch') => expiration' = now']_vars

C8_Witness ==
    /\ op = "get" /\ branch = "expire"
    /\ duration = 0 /\ now > configured /\ expiration = now

\* C9: with capacity 0 every value(k) call on a Memo-Bound node invokes the
\* calculation and leaves the store empty.
C9_CapacityZero ==
    (controller = Memoized /\ capacity = 0 /\ op = "value") =>
        /\ Len(ret) = 1
        /\ calls = 1
        /\ cache = <<>>

\* C10: memoize(k) invokes the calculation once, returns Calc(k), leaves
\* k -> Calc(k) in the store and evicts the oldest entry instead of growing
\* a full store past its capacity.
C10_MemoizeEvicts ==
    [][op' = "memoize" =>
        /\ calls' = 1
        /\ ret' = Some(Calc(arg'))
        /\ Contains(cache', arg') /\ MapGet(cache', arg') = Calc(arg')
        /\ (/\ ~Contains(cache, arg')
            /\ capacity >= 1 /\ Len(cache) = capacity) =>
              cache' = Append(Tail(cache), Entry(arg', Calc(arg')))]_vars

\* the store without its entry for key k
Others(c, k) == IF Contains(c, k) THEN RemoveAt(c, IndexOf(c, k)) ELSE c

\* the last call was a read of a key
IsRead(o) == o \in {"get", "value"}

\* C11: insert(k, v) of a key that is present updates its value, removes no
\* other entry and keeps the other entries in their order, also when the
\* store holds capacity entries.
C11_InsertExisting ==
    [][(op' = "insert" /\ Contains(cache, arg')) =>
        /\ Contains(cache', arg')
        /\ MapGet(cache', arg') = InsertVal
        /\ Others(cache', arg') = Others(cache, arg')]_vars

\* C12: get(k) returns None and changes nothing when k is absent, returns
\* the stored value when k is present and fresh, or stale under REVALIDATE,
\* and clears the store and returns None when stale under EXPIRE; it never
\* adds an entry.
C12_Get ==
    [][op' = "get" =>
        /\ \A i \in 1..Len(cache') : Contains(cache, cache'[i].k)
        /\ calls' = 0
        /\ IF ~Contains(cache, arg')
           THEN ret' = None /\ cache' = cache /\ expiration' = expiration
           ELSE IF ~Passed
           THEN ret' = Some(MapGet(cache, arg')) /\ cache' = cache
           ELSE IF action = REVALIDATE
           THEN ret' = Some(MapGet(cache, arg')) /\ cache' = cache
           ELSE ret' = None /\ cache' = <<>>]_vars

C12_Witness ==
    /\ op = "get" /\ branch = "expire" /\ action = EXPIRE
    /\ ret = None /\ cache = <<>>

\* C13: a read that hits a present, fresh key leaves the store, its order
\* and the expiration unchanged and invokes nothing; so after such a read of
\* the oldest key the next miss on a full store still evicts that key.
C13_FifoNotLru ==
    [][/\ (IsRead(op') /\ Contains(cache, arg') /\ ~Passed) =>
            /\ cache' = cache
            /\ expiration' = expiration
            /\ calls' = 0
            /\ ret' = Some(MapGet(cache, arg'))
       /\ (/\ IsRead(op) /\ branch = "fresh" /\ arg = Head(cache).k
           /\ op' \in {"value", "insert"} /\ ~Contains(cache, arg')
           /\ capacity >= 1 /\ Len(cache) = capacity) =>
            /\ ~Contains(cache', arg)
            /\ cache' = Append(Tail(cache), cache'[Len(cache')])]_vars

C13_Witness ==
    /\ op = "value" /\ branch = "fresh"
    /\ capacity = 2 /\ Len(cache) = capacity /\ arg = Head(cache).k
    /\ calls = 0

\* the last read was a stale one that left its key in the store
StaleHandled == IsRead(op) /\ IsStale(branch) /\ (op = "value" \/ branch = "revalidate")

IsMiss(b) == b \in {"room", "evict", "empty"}

\* C14: a stale read that was handled leaves its key stored and the
\* expiration at now + duration; the clock alone changes neither; and a read
\* of a present key no later than the expiration, in particular the next read
\* of the same key at the same instant with duration 0, is fresh: it returns
\* the stored value, invokes nothing and changes neither store nor expiration.
C14_FreshAfterRenewal ==
    [][/\ (StaleHandled /\ IsRead(op') /\ arg' = arg) =>
            /\ branch' = "fresh"
            /\ ret' = Some(MapGet(cache, arg))
            /\ calls' = 0
            /\ cache' = cache
            /\ expiration' = expiration
       /\ (IsRead(op') /\ IsStale(branch') /\ (op' = "value" \/ branch' = "revalidate")) =>
            /\ Contains(cache', arg')
            /\ expiration' = now' + duration'
       /\ op' = "tick" => (cache' = cache /\ expiration' = expiration)
       /\ (/\ IsRead(op') /\ Contains(cache, arg')
           /\ expiration # NoExpiration /\ now <= expiration) =>
            /\ branch' = "fresh"
            /\ calls' = 0
            /\ cache' = cache
            /\ expiration' = expiration]_vars

C14_Witness ==
    /\ op = "value" /\ branch = "fresh" /\ action = EXPIRE
    /\ duration = 0 /\ expiration = now /\ now > configured
    /\ cache = <<Entry(arg, Calc(arg))>>

\* C15: while expires() has not been called the expiration stays unset,
\* every read of a present key is fresh and returns the stored value, and an
\* entry leaves the store only through the eviction of insert() or value().
C15_NeverExpires ==
    [][(configured = NoExpiration /\ op' # "expires") =>
        /\ expiration' = NoExpiration
        /\ (IsRead(op') /\ Contains(cache, arg')) =>
              (branch' = "fresh" /\ ret' = Some(MapGet(cache, arg')))
        /\ (\E i \in 1..Len(cache) : ~Contains(cache', cache[i].k)) =>
              (op' \in {"insert", "value"} /\ branch' = "evict")]_vars

C15_Witness ==
    /\ configured = NoExpiration /\ expiration = NoExpiration
    /\ now = MaxTime /\ op = "value" /\ branch = "fresh"
    /\ ret = Some(MapGet(cache, arg))

\* C16: once the calculation is attached, capacity, action and duration
\* keep their values and the expiration changes only in a stale read.
C16_ConfigurationFixed ==
    [][controller = Memoized =>
        /\ capacity' = capacity
        /\ action' = action
        /\ duration' = duration
        /\ expiration' # expiration => (IsRead(op') /\ IsStale(branch'))]_vars

\* C17: the expiration is changed only by expires() and by a stale read of a
\* present key; insert, memoize, a read of an absent key and a fresh hit
\* leave it as it is; so the entry a miss stores after the expiration has
\* passed is stale on the next read of its key.
C17_ExpirationFrame ==
    [][/\ expiration' # expiration =>
            \/ op' = "expires"
            \/ IsRead(op') /\ Contains(cache, arg') /\ Passed
       /\ (\/ op' \in {"insert", "memoize"}
           \/ IsRead(op') /\ (~Contains(cache, arg') \/ ~Passed)) =>
            expiration' = expiration
       /\ (/\ op = "value" /\ IsMiss(branch) /\ Passed
           /\ op' = "value" /\ arg' = arg) =>
            IsStale(branch')]_vars

C17_Witness ==
    /\ op = "value" /\ branch = "room" /\ calls = 1
    /\ Passed /\ Contains(cache, arg)

\* C18: with_memo changes the stage and nothing else; a manual entry (k, v)
\* is then returned as v by a fresh value(k), with no calculation, also when
\* v is not Calc(k).
C18_WithMemoCarries ==
    [][/\ op' = "with_memo" =>
            /\ controller' = Memoized
            /\ cache' = cache
            /\ capacity' = capacity
            /\ expiration' = expiration
            /\ action' = action
            /\ duration' = duration
       /\ (/\ op = "with_memo" /\ op' = "value"
           /\ Contains(cache, arg') /\ ~Passed) =>
            /\ ret' = Some(InsertVal)
            /\ calls' = 0
            /\ cache' = cache]_vars

C18_Witness ==
    /\ op = "value" /\ branch = "fresh" /\ calls = 0
    /\ ret = Some(InsertVal) /\ InsertVal # Calc(arg)

\* C19: in a run of value() calls in REVALIDATE mode on a node of capacity
\* >= 1 the calculation is invoked for k only when k is absent, a call that
\* finds k present leaves the store as it is, an entry leaves the store only
\* through eviction, and while no more than capacity distinct keys have been
\* requested no key is computed a second time.
C19_RevalidateComputesOnce ==
    [][(op' = "value" /\ action = REVALIDATE /\ capacity >= 1) =>
        /\ calls' = 1 <=> ~Contains(cache, arg')
        /\ Contains(cache, arg') => cache' = cache
        /\ (\E i \in 1..Len(cache) : ~Contains(cache', cache[i].k)) =>
              branch' = "evict"
        /\ (calls' = 1 /\ Cardinality(requested') <= capacity) =>
              arg' \notin computed]_vars

C19_Witness ==
    /\ op = "value" /\ branch = "revalidate" /\ calls = 0
    /\ arg \in computed /\ Cardinality(requested) = capacity
    /\ capacity = 2 /\ now = MaxTime

=============================================================================
